---- MODULE Spec2Model ----
(***************************************************************************)
(* Model of the agentic tool-orchestration engine of src/app.py: the       *)
(* conversation store (conversation_history), call_gemini with its         *)
(* directive parser, execute_tool_call, and the request handlers           *)
(* analyze_video, analyze_trending, generate_content and track_performance.*)
(*                                                                         *)
(* Texts are sequences of one-character strings.  The alphabet of the      *)
(* parameter texts the model feeds to the parser has no backslash, so the  *)
(* escape sequences of JSON strings are not modelled.                      *)
(***************************************************************************)
EXTENDS Integers, Sequences, FiniteSets, TLC

(***************************************************************************)
(* Characters and character classes of Python's re and json modules.       *)
(***************************************************************************)
Q == "\""

Lower ==
  {"a","b","c","d","e","f","g","h","i","j","k","l","m",
   "n","o","p","q","r","s","t","u","v","w","x","y","z"}

Upper ==
  {"A","B","C","D","E","F","G","H","I","J","K","L","M",
   "N","O","P","Q","R","S","T","U","V","W","X","Y","Z"}

Digits == {"0","1","2","3","4","5","6","7","8","9"}

\* \w of the re module
WordChars == Lower \cup Upper \cup Digits \cup {"_"}

\* \s of the re module
SpaceChars == {" ", "\t", "\n", "\r", "\f"}

\* whitespace skipped by the json decoder
JsonWs == {" ", "\t", "\n", "\r"}

\* characters below 0x20, rejected inside a JSON string
ControlChars == {"\t", "\n", "\r", "\f"}

(***************************************************************************)
(* Text helpers.                                                           *)
(***************************************************************************)
\* s[i:].startswith(p)
StartsWithAt(s, i, p) ==
  /\ i >= 1
  /\ i + Len(p) - 1 <= Len(s)
  /\ SubSeq(s, i, i + Len(p) - 1) = p

\* p in s
Contains(s, p) == \E i \in 1..Len(s) : StartsWithAt(s, i, p)

\* index after the longest run of characters of class C starting at i
RECURSIVE RunEnd(_, _, _)
RunEnd(s, i, C) ==
  IF i <= Len(s) /\ s[i] \in C THEN RunEnd(s, i + 1, C) ELSE i

\* index after the longest run of characters outside class C starting at i
RECURSIVE RunEndNot(_, _, _)
RunEndNot(s, i, C) ==
  IF i <= Len(s) /\ s[i] \notin C THEN RunEndNot(s, i + 1, C) ELSE i

\* s[i:j] with Python's half-open bounds moved to 1-based indices i..j-1
Slice(s, i, j) == SubSeq(s, i, j - 1)

(***************************************************************************)
(* json.loads, restricted to texts without backslash.                      *)
(***************************************************************************)
EmptyDict == [k \in {} |-> k]

JFail == [ok |-> FALSE, val |-> [t |-> "none", v |-> <<>>], end |-> 0]

JOk(val, end) == [ok |-> TRUE, val |-> val, end |-> end]

JStr(chars) == [t |-> "str", v |-> chars]

JNum(chars) == [t |-> "num", v |-> chars]

JLit(chars) == [t |-> "lit", v |-> chars]

JObj(f) == [t |-> "obj", v |-> f]

JArr(seq) == [t |-> "arr", v |-> seq]

DictPut(f, key, val) ==
  [k \in DOMAIN f \cup {key} |-> IF k = key THEN val ELSE f[k]]

SkipWs(s, i) == RunEnd(s, i, JsonWs)

\* py_scanstring: s[i] is the opening quote
JsonString(s, i) ==
  LET j == RunEndNot(s, i + 1, {Q})
      body == Slice(s, i + 1, j)
  IN  IF j > Len(s) THEN JFail
      ELSE IF \E k \in 1..Len(body) : body[k] \in ControlChars THEN JFail
      ELSE JOk(JStr(body), j + 1)

\* NUMBER_RE: (-?(?:0|[1-9]\d*))(\.\d+)?([eE][-+]?\d+)?
JsonNumber(s, i) ==
  LET d == IF i <= Len(s) /\ s[i] = "-" THEN i + 1 ELSE i
      intEnd == IF d <= Len(s) /\ s[d] = "0" THEN d + 1
                ELSE RunEnd(s, d, Digits)
      fracEnd == IF /\ intEnd + 1 <= Len(s)
                    /\ s[intEnd] = "."
                    /\ s[intEnd + 1] \in Digits
                 THEN RunEnd(s, intEnd + 1, Digits)
                 ELSE intEnd
      sgn == IF fracEnd + 1 <= Len(s) /\ s[fracEnd + 1] \in {"-", "+"}
             THEN fracEnd + 2 ELSE fracEnd + 1
      expEnd == IF /\ fracEnd <= Len(s)
                   /\ s[fracEnd] \in {"e", "E"}
                   /\ sgn <= Len(s)
                   /\ s[sgn] \in Digits
                THEN RunEnd(s, sgn, Digits)
                ELSE fracEnd
  IN  IF intEnd = d THEN JFail
      ELSE JOk(JNum(Slice(s, i, expEnd)), expEnd)

JsonLiterals ==
  << <<"n","u","l","l">>, <<"t","r","u","e">>, <<"f","a","l","s","e">>,
     <<"N","a","N">>, <<"I","n","f","i","n","i","t","y">>,
     <<"-","I","n","f","i","n","i","t","y">> >>

RECURSIVE JsonValue(_, _)
RECURSIVE JsonPairs(_, _, _)
RECURSIVE JsonItems(_, _, _)

\* JSONObject: s[i] is the opening brace
JsonObject(s, i) ==
  LET j == SkipWs(s, i + 1)
  IN  IF j > Len(s) THEN JFail
      ELSE IF s[j] = "}" THEN JOk(JObj(EmptyDict), j + 1)
      ELSE IF s[j] = Q THEN JsonPairs(s, j, EmptyDict)
      ELSE JFail

\* the pair loop of JSONObject: s[j] is the opening quote of a key
JsonPairs(s, j, acc) ==
  LET key == JsonString(s, j)
      c == SkipWs(s, key.end)
      val == JsonValue(s, SkipWs(s, c + 1))
      e == SkipWs(s, val.end)
      n == SkipWs(s, e + 1)
      acc2 == DictPut(acc, key.val.v, val.val)
  IN  IF ~key.ok THEN JFail
      ELSE IF c > Len(s) \/ s[c] # ":" THEN JFail
      ELSE IF ~val.ok THEN JFail
      ELSE IF e > Len(s) THEN JFail
      ELSE IF s[e] = "}" THEN JOk(JObj(acc2), e + 1)
      ELSE IF s[e] # "," THEN JFail
      ELSE IF n <= Len(s) /\ s[n] = Q THEN JsonPairs(s, n, acc2)
      ELSE JFail

\* JSONArray: s[i] is the opening bracket
JsonArray(s, i) ==
  LET j == SkipWs(s, i + 1)
  IN  IF j > Len(s) THEN JFail
      ELSE IF s[j] = "]" THEN JOk(JArr(<<>>), j + 1)
      ELSE JsonItems(s, j, <<>>)

\* the item loop of JSONArray: an item starts at j
JsonItems(s, j, acc) ==
  LET val == JsonValue(s, j)
      e == SkipWs(s, val.end)
      acc2 == Append(acc, val.val)
  IN  IF ~val.ok THEN JFail
      ELSE IF e > Len(s) THEN JFail
      ELSE IF s[e] = "]" THEN JOk(JArr(acc2), e + 1)
      ELSE IF s[e] # "," THEN JFail
      ELSE JsonItems(s, SkipWs(s, e + 1), acc2)

\* scan_once of json.scanner
JsonValue(s, i) ==
  IF i > Len(s) THEN JFail
  ELSE IF s[i] = Q THEN JsonString(s, i)
  ELSE IF s[i] = "{" THEN JsonObject(s, i)
  ELSE IF s[i] = "[" THEN JsonArray(s, i)
  ELSE IF \E n \in 1..3 : StartsWithAt(s, i, JsonLiterals[n])
    THEN LET n == CHOOSE n \in 1..3 : StartsWithAt(s, i, JsonLiterals[n])
         IN  JOk(JLit(JsonLiterals[n]), i + Len(JsonLiterals[n]))
  ELSE IF JsonNumber(s, i).ok THEN JsonNumber(s, i)
  ELSE IF \E n \in 4..6 : StartsWithAt(s, i, JsonLiterals[n])
    THEN LET n == CHOOSE n \in 4..6 : StartsWithAt(s, i, JsonLiterals[n])
         IN  JOk(JLit(JsonLiterals[n]), i + Len(JsonLiterals[n]))
  ELSE JFail

\* json.loads(s): ok is FALSE where the code raises json.JSONDecodeError
JsonLoads(s) ==
  LET v == JsonValue(s, SkipWs(s, 1))
  IN  IF v.ok /\ SkipWs(s, v.end) = Len(s) + 1 THEN v ELSE JFail

(***************************************************************************)
(* The directive parser of call_gemini.                                    *)
(***************************************************************************)
ToolMarker == <<"T","O","O","L",":">>

ToolPrefix == <<"T","O","O","L",":"," ">>

ParamsPrefix == <<"\n","P","A","R","A","M","S",":"," ","{">>

Http == <<"h","t","t","p">>

SchemeSep == <<":","/","/">>

KeyValueSep == <<"\"",":"," ">>

video_url == <<"v","i","d","e","o","_","u","r","l">>

\* end of the tool name when tool_pattern matches at i, 0 when it does not:
\* "TOOL: ", a longest run of \w, "\nPARAMS: {" and a later closing brace
ToolPatternAt(s, i) ==
  LET n == RunEnd(s, i + Len(ToolPrefix), WordChars)
  IN  IF /\ StartsWithAt(s, i, ToolPrefix)
         /\ n > i + Len(ToolPrefix)
         /\ StartsWithAt(s, n, ParamsPrefix)
         /\ \E k \in (n + Len(ParamsPrefix))..Len(s) : s[k] = "}"
      THEN n ELSE 0

\* re.search(tool_pattern, response_text, re.DOTALL): the leftmost match,
\* whose second group runs from the brace to the last closing brace
tool_match(s) ==
  IF \E i \in 1..Len(s) : ToolPatternAt(s, i) # 0
  THEN LET i == CHOOSE i \in 1..Len(s) :
                  /\ ToolPatternAt(s, i) # 0
                  /\ \A j \in 1..(i - 1) : ToolPatternAt(s, j) = 0
           n == ToolPatternAt(s, i)
           last == CHOOSE k \in 1..Len(s) :
                     /\ s[k] = "}"
                     /\ \A m \in (k + 1)..Len(s) : s[m] # "}"
       IN  [found |-> TRUE,
            group1 |-> Slice(s, i + Len(ToolPrefix), n),
            group2 |-> SubSeq(s, n + Len(ParamsPrefix) - 1, last)]
  ELSE [found |-> FALSE, group1 |-> <<>>, group2 |-> <<>>]

\* tool_params_str.replace("'", '"')
ReplaceSingleQuotes(s) == [i \in 1..Len(s) |-> IF s[i] = "'" THEN Q ELSE s[i]]

\* the scheme matched by https? at i ("https" is tried first), <<>> if none
SchemeAt(s, i) ==
  IF StartsWithAt(s, i, Http \o <<"s">>) THEN Http \o <<"s">>
  ELSE IF StartsWithAt(s, i, Http) THEN Http
  ELSE <<>>

\* re.sub(r'": ""(https?)"://', r'": "\1://', s), scanning from i
RECURSIVE FixQuotedScheme(_, _)
FixQuotedScheme(s, i) ==
  LET h == i + Len(KeyValueSep) + 2
      scheme == SchemeAt(s, h)
      pat == KeyValueSep \o <<Q, Q>> \o scheme \o <<Q>> \o SchemeSep
  IN  IF i > Len(s) THEN <<>>
      ELSE IF scheme # <<>> /\ StartsWithAt(s, i, pat)
        THEN KeyValueSep \o <<Q>> \o scheme \o SchemeSep
               \o FixQuotedScheme(s, i + Len(pat))
      ELSE <<s[i]>> \o FixQuotedScheme(s, i + 1)

\* index after a match of https?://[^C]+ at i, 0 when there is none
UrlEnd(s, i, C) ==
  LET scheme == SchemeAt(s, i)
      b == i + Len(scheme) + Len(SchemeSep)
      e == RunEndNot(s, b, C)
  IN  IF scheme # <<>> /\ StartsWithAt(s, i + Len(scheme), SchemeSep) /\ e > b
      THEN e ELSE 0

\* re.sub(r'": "+"(https?://[^"]+)"+"', r'": "\1"', s), scanning from i
RECURSIVE FixMultiQuotedUrl(_, _)
FixMultiQuotedUrl(s, i) ==
  LET u == RunEnd(s, i + Len(KeyValueSep), {Q})
      e == UrlEnd(s, u, {Q})
      z == RunEnd(s, e, {Q})
  IN  IF i > Len(s) THEN <<>>
      ELSE IF /\ StartsWithAt(s, i, KeyValueSep)
              /\ u - (i + Len(KeyValueSep)) >= 2
              /\ e # 0
              /\ z - e >= 2
        THEN KeyValueSep \o <<Q>> \o Slice(s, u, e) \o <<Q>>
               \o FixMultiQuotedUrl(s, z)
      ELSE <<s[i]>> \o FixMultiQuotedUrl(s, i + 1)

\* re.sub(r'": +"([^"]+)"', r'": "\1"', s), scanning from i
RECURSIVE FixRemainingUrl(_, _)
FixRemainingUrl(s, i) ==
  LET sp == RunEnd(s, i + 2, {" "})
      e == RunEndNot(s, sp + 1, {Q})
  IN  IF i > Len(s) THEN <<>>
      ELSE IF /\ StartsWithAt(s, i, <<Q, ":", " ">>)
              /\ sp <= Len(s) /\ s[sp] = Q
              /\ e > sp + 1
              /\ e <= Len(s)
        THEN KeyValueSep \o <<Q>> \o Slice(s, sp + 1, e) \o <<Q>>
               \o FixRemainingUrl(s, e + 1)
      ELSE <<s[i]>> \o FixRemainingUrl(s, i + 1)

\* re.sub(r'(\w+):', r'"\1":', s), scanning from i
RECURSIVE QuoteKeyNames(_, _)
QuoteKeyNames(s, i) ==
  LET e == RunEnd(s, i, WordChars)
  IN  IF i > Len(s) THEN <<>>
      ELSE IF e > i /\ e <= Len(s) /\ s[e] = ":"
        THEN <<Q>> \o Slice(s, i, e) \o <<Q, ":">> \o QuoteKeyNames(s, e + 1)
      ELSE IF e > i THEN Slice(s, i, e) \o QuoteKeyNames(s, e)
      ELSE <<s[i]>> \o QuoteKeyNames(s, i + 1)

\* tool_params_str after the five repairs of lines 779-792
CleanedParams(s) ==
  LET s1 == ReplaceSingleQuotes(s)
      s2 == FixQuotedScheme(s1, 1)
      s3 == FixMultiQuotedUrl(s2, 1)
      s4 == FixRemainingUrl(s3, 1)
  IN  QuoteKeyNames(s4, 1)

\* re.search(r'https?://[^\s"]+', s): the leftmost match, <<>> if none
url_match(s) ==
  LET C == SpaceChars \cup {Q}
  IN  IF \E i \in 1..Len(s) : UrlEnd(s, i, C) # 0
      THEN LET i == CHOOSE i \in 1..Len(s) :
                      /\ UrlEnd(s, i, C) # 0
                      /\ \A j \in 1..(i - 1) : UrlEnd(s, j, C) = 0
           IN  Slice(s, i, UrlEnd(s, i, C))
      ELSE <<>>

\* tool_params of lines 797-813: the decoded object, else the URL fallback;
\* ok is FALSE where json.JSONDecodeError leaves the inner try block
ToolParams(cleaned) ==
  LET v == JsonLoads(cleaned)
  IN  IF v.ok THEN [ok |-> TRUE, parameters |-> v.val.v]
      ELSE IF Contains(cleaned, video_url) /\ url_match(cleaned) # <<>>
        THEN [ok |-> TRUE,
              parameters |-> DictPut(EmptyDict, video_url,
                                     JStr(url_match(cleaned)))]
      ELSE [ok |-> FALSE, parameters |-> EmptyDict]

None == [some |-> FALSE, name |-> <<>>, parameters |-> EmptyDict]

\* a parser that takes the marker and the tool pattern in any letter case
ParseReply_AnyCase(response_text) ==
  LET up == [i \in 1..Len(response_text) |->
               CASE i <= 4 /\ response_text[i] = "t" -> "T"
                 [] i <= 4 /\ response_text[i] = "o" -> "O"
                 [] i <= 4 /\ response_text[i] = "l" -> "L"
                 [] OTHER -> response_text[i]]
      m == tool_match(up)
      p == ToolParams(CleanedParams(m.group2))
  IN  IF m.found /\ p.ok
      THEN [some |-> TRUE, name |-> m.group1, parameters |-> p.parameters]
      ELSE None

\* the "tool_call" entry call_gemini returns for a reply text (lines 764-840)
ParseReply(response_text) ==
  LET m == tool_match(response_text)
      p == ToolParams(CleanedParams(m.group2))
  IN  IF Contains(response_text, ToolMarker) /\ m.found /\ p.ok
      THEN [some |-> TRUE, name |-> m.group1, parameters |-> p.parameters]
      ELSE None

(***************************************************************************)
(* The tool registry and the tool dispatcher.                              *)
(***************************************************************************)
youtube_scraper == <<"y","o","u","t","u","b","e","_","s","c","r","a","p","e","r">>

content_analyzer ==
  <<"c","o","n","t","e","n","t","_","a","n","a","l","y","z","e","r">>

content_generator ==
  <<"c","o","n","t","e","n","t","_","g","e","n","e","r","a","t","o","r">>

performance_tracker ==
  <<"p","e","r","f","o","r","m","a","n","c","e","_","t","r","a","c","k","e","r">>

\* the registry, with the keyword parameters each execute method accepts
available_tools ==
  (youtube_scraper :>
     [required |-> {<<"n","i","c","h","e">>}, optional |-> {}])
  @@ (content_analyzer :>
     [required |-> {<<"c","o","n","t","e","n","t">>}, optional |-> {}])
  @@ (content_generator :>
     [required |-> {<<"p","r","o","m","p","t">>},
      optional |-> {<<"t","r","e","n","d","i","n","g","_","d","a","t","a">>}])
  @@ (performance_tracker :> [required |-> {video_url}, optional |-> {}])

\* tool.execute(**tool_params) binds its arguments without a TypeError
BindsParams(tool, tool_params) ==
  /\ tool.required \subseteq DOMAIN tool_params
  /\ DOMAIN tool_params \subseteq tool.required \cup tool.optional

ErrorKey == <<"e","r","r","o","r">>

\* the one-entry dictionaries passed as tool_results
NoResults == [key |-> <<>>, msg |-> "None", arg |-> <<>>]

ToolNotFound(tool_name) ==
  [key |-> ErrorKey, msg |-> "Tool not found", arg |-> tool_name]

ToolExecutionError ==
  [key |-> ErrorKey, msg |-> "Tool execution error", arg |-> <<>>]

ToolResult(tool_name) == [key |-> tool_name, msg |-> "result", arg |-> <<>>]

SystemPrompt ==
  [key |-> <<"s","y","s","t","e","m","_","p","r","o","m","p","t">>,
   msg |-> "system_prompt", arg |-> <<>>]

\* what the tool's execute method does once called: it returns or it raises
ToolOutcomes == {"returns", "raises"}

\* an exception that leaves execute_tool_call, for the handler's except clause
Unhandled == [key |-> <<"raise">>, msg |-> "exception", arg |-> <<>>]

\* tool.execute(**tool_params) of a registered tool raises: its arguments do
\* not bind, or its own code fails
ToolRaises(tool_call, outcome) ==
  \/ ~BindsParams(available_tools[tool_call.name], tool_call.parameters)
  \/ outcome = "raises"

\* execute_tool_call without its try block
execute_tool_call_NoExcept(tool_call, outcome) ==
  IF tool_call.name \notin DOMAIN available_tools
  THEN ToolNotFound(tool_call.name)
  ELSE IF ToolRaises(tool_call, outcome) THEN Unhandled
  ELSE ToolResult(tool_call.name)

\* execute_tool_call without its registry test: the lookup fails in the try
execute_tool_call_NoLookup(tool_call, outcome) ==
  IF tool_call.name \notin DOMAIN available_tools THEN ToolExecutionError
  ELSE IF ToolRaises(tool_call, outcome) THEN ToolExecutionError
  ELSE ToolResult(tool_call.name)

\* execute_tool_call(tool_call), with the outcome of the tool's own code
execute_tool_call(tool_call, outcome) ==
  IF tool_call.name \notin DOMAIN available_tools
  THEN ToolNotFound(tool_call.name)
  ELSE IF ToolRaises(tool_call, outcome) THEN ToolExecutionError
  ELSE ToolResult(tool_call.name)

\* json.dumps(tool_results) as a sequence of tokens
Dumps(tool_results) ==
  <<"{">> \o tool_results.key \o <<":", tool_results.msg>>
    \o tool_results.arg \o <<"}">>

(***************************************************************************)
(* Bounds and inputs.                                                      *)
(***************************************************************************)
\* the requests the server handles, each on a thread of its own
Reqs == {1, 2}

\* the last clock second the model reaches
MaxTick == 1

\* the number of call_gemini calls that requests whose handling overlaps in
\* time may enter together; a request that meets no other one is not bounded
MaxCalls == 2

\* session ids that callers of the three tool endpoints send
ClientSessions == {"default"}

\* replies of the generative model
ReplyPlain == <<"o","k">>

ReplyScraper ==
  <<"T","O","O","L",":"," ","y","o","u","t","u","b","e","_","s","c","r","a",
    "p","e","r","\n","P","A","R","A","M","S",":"," ","{","'","n","i","c","h",
    "e","'",":"," ","'","a","'","}">>

ReplyNoParams ==
  <<"T","O","O","L",":"," ","y","o","u","t","u","b","e","_","s","c","r","a",
    "p","e","r","\n","P","A","R","A","M","S",":"," ","{","}">>

ReplyUnknownTool ==
  <<"T","O","O","L",":"," ","x","\n","P","A","R","A","M","S",":"," ","{","}">>

ReplyUrl ==
  <<"T","O","O","L",":"," ","p","e","r","f","o","r","m","a","n","c","e","_",
    "t","r","a","c","k","e","r","\n","P","A","R","A","M","S",":"," ","{","\"",
    "v","i","d","e","o","_","u","r","l","\"",":"," ","\"","h","t","t","p","s",
    ":","/","/","y","\"","}">>

ReplyTexts ==
  {ReplyPlain, ReplyScraper, ReplyNoParams, ReplyUnknownTool, ReplyUrl}

\* ParseReply tabulated over the replies of the model
ParsedReply == [response_text \in ReplyTexts |-> ParseReply(response_text)]

(***************************************************************************)
(* State.                                                                  *)
(***************************************************************************)
VARIABLES
  conversation_history,  \* the dictionary: session id -> list object
  lists,                 \* the list objects, named by the request that made them
  req                    \* the local state of each request thread

vars == <<conversation_history, lists, req>>

\* a turn; by and n record the request and the round it belongs to
Turn(role, text, r, n) == [role |-> role, text |-> text, by |-> r, n |-> n]

\* the list a session id is bound to
Transcript(sid) == lists[conversation_history[sid]]

first_prompt == <<"first_prompt">>

second_prompt == <<"second_prompt">>

final_prompt == <<"final_prompt">>

user_prompt == <<"user_prompt">>

\* f"Error: {str(e)}"
ErrorText == <<"Error: ", "e">>

IdleReq ==
  [pc |-> "idle", kind |-> "none", conversation_id |-> "", prompt |-> <<>>,
   tool_results |-> NoResults, call |-> 0, time |-> 0, it |-> 0,
   full_context |-> <<>>, snapshot |-> <<>>,
   response |-> <<>>, tool_call |-> None,
   rounds |-> 0, replies |-> <<>>, dispatched |-> <<>>,
   result |-> <<>>, status |-> 0, direct |-> FALSE, overlaps |-> FALSE]

Init ==
  /\ conversation_history = EmptyDict
  /\ lists = [r \in Reqs |-> <<>>]
  /\ req = [r \in Reqs |-> IdleReq]

(***************************************************************************)
(* call_gemini, one action per statement that touches the shared store.    *)
(***************************************************************************)
\* the call_gemini calls request r has entered
CallsStarted(r) ==
  IF req[r].pc \in {"cg_check", "cg_create", "cg_results", "cg_user",
                    "cg_iter", "cg_read", "cg_model"}
  THEN req[r].rounds + 1 ELSE req[r].rounds

RECURSIVE SumCalls(_)
SumCalls(R) ==
  IF R = {} THEN 0
  ELSE LET r == CHOOSE r \in R : TRUE
       IN  CallsStarted(r) + SumCalls(R \ {r})

\* request r has arrived and has not been answered
InFlight(r) == req[r].pc \notin {"idle", "done"}

\* the requests that request r runs with or has run with
Together(r) ==
  {q \in Reqs \ {r} : InFlight(q) \/ (req[r].overlaps /\ req[q].overlaps)}

\* the model follows one more call_gemini call of request r
MayCall(r) ==
  \/ Together(r) = {}
  \/ SumCalls(Together(r) \cup {r}) < MaxCalls

\* request r arrives and its handler runs up to its first call_gemini or to
\* its answer; overlaps records the requests that are in flight together
Arrived(r, local) ==
  LET met == IF local.pc = "done" THEN {}
             ELSE {q \in Reqs \ {r} : InFlight(q)}
  IN  [q \in Reqs |->
         IF q = r THEN [local EXCEPT !.overlaps = met # {}]
         ELSE IF q \in met THEN [req[q] EXCEPT !.overlaps = TRUE]
         ELSE req[q]]

\* requests are numbered in the order in which they arrive
Arrives(r) ==
  /\ req[r].pc = "idle"
  /\ \A q \in Reqs : q < r => req[q].pc # "idle"

\* the entry of call_gemini(prompt, conversation_id, tool_results)
Call(r, kind, call, conversation_id, prompt, tool_results) ==
  [req[r] EXCEPT !.pc = "cg_check", !.kind = kind, !.call = call,
                 !.conversation_id = conversation_id, !.prompt = prompt,
                 !.tool_results = tool_results]

\* where call_gemini goes once the session has a list: "if tool_results:"
AfterCreate(r) ==
  IF req[r].tool_results # NoResults THEN "cg_results" ELSE "cg_user"

\* the round a tool result passed to call_gemini comes from
ResultRound(r) == IF req[r].kind = "analyze_video" THEN req[r].call - 1 ELSE 0

\* line 723: if conversation_id not in conversation_history
HistoryCheck(r) ==
  /\ req[r].pc = "cg_check"
  /\ req' = [req EXCEPT ![r].pc =
               IF req[r].conversation_id \notin DOMAIN conversation_history
               THEN "cg_create" ELSE AfterCreate(r)]
  /\ UNCHANGED <<conversation_history, lists>>

\* line 724: conversation_history[conversation_id] = []
HistoryCreate(r) ==
  /\ req[r].pc = "cg_create"
  /\ conversation_history' =
       (req[r].conversation_id :> r) @@ conversation_history
  /\ lists' = [lists EXCEPT ![r] = <<>>]
  /\ req' = [req EXCEPT ![r].pc = AfterCreate(r)]

\* an append to one list shared by all sessions
AppendTurn_SharedList(r, turn) ==
  lists' = [l \in DOMAIN lists |->
              IF l \in {conversation_history[sid] :
                          sid \in DOMAIN conversation_history}
              THEN Append(lists[l], turn) ELSE lists[l]]

\* conversation_history[conversation_id].append(turn)
AppendTurn(r, turn) ==
  lists' = [lists EXCEPT ![conversation_history[req[r].conversation_id]] =
              Append(@, turn)]

\* lines 727-732: the tool results go to the history as a function turn
AppendResults(r) ==
  /\ req[r].pc = "cg_results"
  /\ AppendTurn(r, Turn("function", Dumps(req[r].tool_results), r,
                        ResultRound(r)))
  /\ req' = [req EXCEPT ![r].pc = "cg_user"]
  /\ UNCHANGED conversation_history

\* lines 735-738: the prompt goes to the history as a user turn
AppendUser(r) ==
  /\ req[r].pc = "cg_user"
  /\ AppendTurn(r, Turn("user", req[r].prompt, r, req[r].rounds + 1))
  /\ req' = [req EXCEPT ![r].pc = "cg_iter"]
  /\ UNCHANGED conversation_history

\* line 743: the for statement takes an iterator over the session's list
ReadBegin(r) ==
  /\ req[r].pc = "cg_iter"
  /\ req' = [req EXCEPT ![r].pc = "cg_read",
                        ![r].it = conversation_history[req[r].conversation_id],
                        ![r].snapshot = Transcript(req[r].conversation_id)]
  /\ UNCHANGED <<conversation_history, lists>>

\* lines 743-746: the loop runs until the iterator finds no further element.
\* A list object only grows and its elements never change, so what the loop
\* has read when it ends is the list as it is at that moment, whenever the
\* single elements were fetched.
ReadContext(r) ==
  /\ req[r].pc = "cg_read"
  /\ req' = [req EXCEPT ![r].pc = "cg_model",
                        ![r].full_context = lists[req[r].it]]
  /\ UNCHANGED <<conversation_history, lists>>

\* where call_gemini returns to
ReturnPc(r) == IF req[r].kind = "analyze_video" THEN "av_ret" ELSE "ep_ret"

\* a call_gemini that does not store a reply from which it parsed a directive
ModelReply_DirectiveNotStored(r, response_text) ==
  /\ req[r].pc = "cg_model"
  /\ lists' = IF ParsedReply[response_text].some THEN lists
              ELSE [lists EXCEPT
                      ![conversation_history[req[r].conversation_id]] =
                        Append(@, Turn("assistant", response_text, r,
                                       req[r].rounds + 1))]
  /\ req' = [req EXCEPT ![r].pc = ReturnPc(r),
                        ![r].response = response_text,
                        ![r].tool_call = ParsedReply[response_text],
                        ![r].rounds = @ + 1,
                        ![r].replies = Append(@, response_text),
                        ![r].it = 0,
                        ![r].full_context = <<>>, ![r].snapshot = <<>>]
  /\ UNCHANGED conversation_history

\* lines 757-840: the model replies, the reply is parsed and stored
ModelReply(r, response_text) ==
  /\ req[r].pc = "cg_model"
  /\ AppendTurn(r, Turn("assistant", response_text, r, req[r].rounds + 1))
  /\ req' = [req EXCEPT ![r].pc = ReturnPc(r),
                        ![r].response = response_text,
                        ![r].tool_call = ParsedReply[response_text],
                        ![r].rounds = @ + 1,
                        ![r].replies = Append(@, response_text),
                        ![r].it = 0,
                        ![r].full_context = <<>>, ![r].snapshot = <<>>]
  /\ UNCHANGED conversation_history

\* a failing model call that leaves the tool call of the reply before it
ModelFailure_KeepsToolCall(r) ==
  /\ req[r].pc = "cg_model"
  /\ req' = [req EXCEPT ![r].pc = ReturnPc(r),
                        ![r].response = ErrorText,
                        ![r].rounds = @ + 1,
                        ![r].replies = Append(@, ErrorText),
                        ![r].it = 0,
                        ![r].full_context = <<>>, ![r].snapshot = <<>>]
  /\ UNCHANGED <<conversation_history, lists>>

\* lines 757, 842-847: the model call raises
ModelFailure(r) ==
  /\ req[r].pc = "cg_model"
  /\ req' = [req EXCEPT ![r].pc = ReturnPc(r),
                        ![r].response = ErrorText,
                        ![r].tool_call = None,
                        ![r].rounds = @ + 1,
                        ![r].replies = Append(@, ErrorText),
                        ![r].it = 0,
                        ![r].full_context = <<>>, ![r].snapshot = <<>>]
  /\ UNCHANGED <<conversation_history, lists>>

(***************************************************************************)
(* The request handlers.                                                   *)
(***************************************************************************)
\* a handler returns: the response body and the HTTP status
Respond(r, result, status) ==
  [req[r] EXCEPT !.pc = "done", !.result = result, !.status = status]

\* f"video_{int(time.time())}"
VideoSession(t) == "video_" \o ToString(t)

\* the latest clock second an earlier analyze_video request has read
LastTime ==
  LET T == {req[q].time : q \in Reqs}
  IN  CHOOSE t \in T : \A u \in T : u <= t

\* lines 1172-1190 and 1248-1251: analyze_video up to its first call_gemini,
\* at clock second now, which never runs backwards; a request without a
\* JSON body fails in data.get and is answered 500
analyze_video(r) ==
  /\ Arrives(r)
  /\ MayCall(r)
  /\ \E body \in {"json", "none"}, now \in LastTime..MaxTick :
       req' = Arrived(r,
                 IF body = "none"
                 THEN [Respond(r, <<"error">>, 500)
                         EXCEPT !.kind = "analyze_video"]
                 ELSE [Call(r, "analyze_video", 1, VideoSession(now),
                            first_prompt, NoResults)
                         EXCEPT !.time = now])
  /\ UNCHANGED <<conversation_history, lists>>

\* the record of a dispatch: the round, the tool call, whether the tool
\* raised, and what execute_tool_call returned
DispatchEntry(r, outcome, tool_results) ==
  [round |-> req[r].rounds,
   name |-> req[r].tool_call.name,
   parameters |-> req[r].tool_call.parameters,
   raised |-> /\ req[r].tool_call.name \in DOMAIN available_tools
              /\ ToolRaises(req[r].tool_call, outcome),
   results |-> tool_results]

\* a dispatch that does not go on to the next call_gemini
Dispatch_NoAdvance(r, outcome, prompt) ==
  LET tool_results == execute_tool_call(req[r].tool_call, outcome)
  IN  [req[r] EXCEPT !.tool_results = tool_results,
                     !.dispatched =
                        Append(@, DispatchEntry(r, outcome, tool_results))]

\* a tool is executed for the directive of the reply just received and
\* call_gemini is called with its results; an exception would reach the
\* except clause of lines 1248-1251
Dispatch(r, outcome, prompt) ==
  LET tool_results == execute_tool_call(req[r].tool_call, outcome)
  IN  [(IF tool_results = Unhandled THEN Respond(r, <<"error">>, 500)
        ELSE Call(r, "analyze_video", req[r].call + 1,
                  req[r].conversation_id, prompt, tool_results))
         EXCEPT !.dispatched =
                  Append(@, DispatchEntry(r, outcome, tool_results))]

\* lines 1193-1207: the first reply has a tool call
FirstToolCall(r) ==
  /\ req[r].pc = "av_ret"
  /\ req[r].call = 1
  /\ req[r].tool_call.some
  /\ MayCall(r)
  /\ \E outcome \in ToolOutcomes :
       req' = [req EXCEPT ![r] = Dispatch(r, outcome, second_prompt)]
  /\ UNCHANGED <<conversation_history, lists>>

\* a handler with a budget of two rounds: it returns the second reply
\* although it has a tool call
SecondToolCall_Returns(r) ==
  /\ req[r].pc = "av_ret"
  /\ req[r].call = 2
  /\ req[r].tool_call.some
  /\ req' = [req EXCEPT ![r] = Respond(r, req[r].response, 200)]
  /\ UNCHANGED <<conversation_history, lists>>

\* lines 1210-1224: the second reply has a tool call
SecondToolCall(r) ==
  /\ req[r].pc = "av_ret"
  /\ req[r].call = 2
  /\ req[r].tool_call.some
  /\ MayCall(r)
  /\ \E outcome \in ToolOutcomes :
       req' = [req EXCEPT ![r] = Dispatch(r, outcome, final_prompt)]
  /\ UNCHANGED <<conversation_history, lists>>

\* lines 1240-1246: the first reply has no tool call
ReturnSimple(r) ==
  /\ req[r].pc = "av_ret"
  /\ req[r].call = 1
  /\ ~req[r].tool_call.some
  /\ req' = [req EXCEPT ![r] = Respond(r, req[r].response, 200)]
  /\ UNCHANGED <<conversation_history, lists>>

\* a partial flow that returns the first reply instead of the second
ReturnPartial_FirstReply(r) ==
  /\ req[r].pc = "av_ret"
  /\ req[r].call = 2
  /\ ~req[r].tool_call.some
  /\ req' = [req EXCEPT ![r] = Respond(r, req[r].replies[1], 200)]
  /\ UNCHANGED <<conversation_history, lists>>

\* lines 1233-1239: the second reply has no tool call
ReturnPartial(r) ==
  /\ req[r].pc = "av_ret"
  /\ req[r].call = 2
  /\ ~req[r].tool_call.some
  /\ req' = [req EXCEPT ![r] = Respond(r, req[r].response, 200)]
  /\ UNCHANGED <<conversation_history, lists>>

\* a final step that dispatches a directive of the third reply as well
ReturnFinal_Dispatches(r) ==
  /\ req[r].pc = "av_ret"
  /\ req[r].call = 3
  /\ req' = [req EXCEPT ![r] =
               IF req[r].tool_call.some
               THEN [Dispatch(r, "returns", final_prompt) EXCEPT !.call = 3]
               ELSE Respond(r, req[r].response, 200)]
  /\ UNCHANGED <<conversation_history, lists>>

\* a final step that fails the request when the third reply has a directive
ReturnFinal_Fails(r) ==
  /\ req[r].pc = "av_ret"
  /\ req[r].call = 3
  /\ req' = [req EXCEPT ![r] =
               IF req[r].tool_call.some
               THEN Respond(r, <<"error">>, 500)
               ELSE Respond(r, req[r].response, 200)]
  /\ UNCHANGED <<conversation_history, lists>>

\* lines 1226-1232: the final reply is returned whatever it holds
ReturnFinal(r) ==
  /\ req[r].pc = "av_ret"
  /\ req[r].call = 3
  /\ req' = [req EXCEPT ![r] = Respond(r, req[r].response, 200)]
  /\ UNCHANGED <<conversation_history, lists>>

\* request bodies of the tool endpoints: whether the required field is
\* there, the session id (absent means "default"), and for track_performance
\* whether the URL names youtube.com or youtu.be
RequestData ==
  [field : BOOLEAN, session_id : ClientSessions, youtube : BOOLEAN]

\* what the tools a handler runs itself do: they return data, return
\* nothing usable, or raise
DirectOutcomes == {"data", "empty", "raised"}

\* lines 891, 1004, 1100: the answer to a body without its required field
MissingParameter == <<"Missing required parameter">>

\* lines 1107-1110: the answer to a URL that is not a YouTube URL
InvalidUrl == <<"Invalid YouTube URL">>

\* lines 888-970 and 982-988: analyze_trending up to its call_gemini; direct
\* records that the handler ran its tools
analyze_trending(r) ==
  /\ Arrives(r)
  /\ MayCall(r)
  /\ \E data \in RequestData, outcome \in DirectOutcomes :
       req' = Arrived(r,
                 [(IF ~data.field THEN Respond(r, MissingParameter, 400)
                   ELSE IF outcome # "data"
                     THEN [Respond(r, <<"error">>, 500) EXCEPT !.direct = TRUE]
                   ELSE [Call(r, "tool_endpoint", 1, data.session_id,
                              user_prompt, SystemPrompt)
                           EXCEPT !.direct = TRUE])
                    EXCEPT !.kind = "tool_endpoint"])
  /\ UNCHANGED <<conversation_history, lists>>

\* lines 1001-1067 and 1078-1084: generate_content up to its call_gemini
generate_content(r) ==
  /\ Arrives(r)
  /\ MayCall(r)
  /\ \E data \in RequestData, outcome \in DirectOutcomes :
       req' = Arrived(r,
                 [(IF ~data.field THEN Respond(r, MissingParameter, 400)
                   ELSE IF outcome # "data"
                     THEN [Respond(r, <<"error">>, 500) EXCEPT !.direct = TRUE]
                   ELSE [Call(r, "tool_endpoint", 1, data.session_id,
                              user_prompt, SystemPrompt)
                           EXCEPT !.direct = TRUE])
                    EXCEPT !.kind = "tool_endpoint"])
  /\ UNCHANGED <<conversation_history, lists>>

\* a track_performance that looks at the URL after its tool has run
track_performance_ValidatesLate(r) ==
  /\ Arrives(r)
  /\ MayCall(r)
  /\ \E data \in RequestData, outcome \in DirectOutcomes :
       req' = Arrived(r,
                 [(IF ~data.field THEN Respond(r, MissingParameter, 400)
                   ELSE IF outcome = "raised"
                     THEN [Respond(r, <<"error">>, 500) EXCEPT !.direct = TRUE]
                   ELSE IF ~data.youtube
                     THEN [Respond(r, InvalidUrl, 400) EXCEPT !.direct = TRUE]
                   ELSE IF outcome = "empty"
                     THEN [Respond(r, <<"error">>, 400) EXCEPT !.direct = TRUE]
                   ELSE [Call(r, "tool_endpoint", 1, data.session_id,
                              user_prompt, SystemPrompt)
                           EXCEPT !.direct = TRUE])
                    EXCEPT !.kind = "tool_endpoint"])
  /\ UNCHANGED <<conversation_history, lists>>

\* lines 1097-1151 and 1162-1168: track_performance up to its call_gemini
track_performance(r) ==
  /\ Arrives(r)
  /\ MayCall(r)
  /\ \E data \in RequestData, outcome \in DirectOutcomes :
       req' = Arrived(r,
                 [(IF ~data.field THEN Respond(r, MissingParameter, 400)
                   ELSE IF ~data.youtube THEN Respond(r, InvalidUrl, 400)
                   ELSE IF outcome = "empty"
                     THEN [Respond(r, <<"error">>, 400) EXCEPT !.direct = TRUE]
                   ELSE IF outcome = "raised"
                     THEN [Respond(r, <<"error">>, 500) EXCEPT !.direct = TRUE]
                   ELSE [Call(r, "tool_endpoint", 1, data.session_id,
                              user_prompt, SystemPrompt)
                           EXCEPT !.direct = TRUE])
                    EXCEPT !.kind = "tool_endpoint"])
  /\ UNCHANGED <<conversation_history, lists>>

\* a tool endpoint that executes the tool its reply names before it returns
EndpointReturn_Dispatches(r) ==
  /\ req[r].pc = "ep_ret"
  /\ req' = [req EXCEPT ![r] =
               IF req[r].tool_call.some
               THEN [Respond(r, req[r].response, 200)
                       EXCEPT !.dispatched =
                                Append(@, DispatchEntry(r, "returns",
                                            execute_tool_call(req[r].tool_call,
                                                              "returns")))]
               ELSE Respond(r, req[r].response, 200)]
  /\ UNCHANGED <<conversation_history, lists>>

\* lines 974-980, 1071-1076, 1155-1160: the tool endpoints return the
\* dictionary call_gemini returned
EndpointReturn(r) ==
  /\ req[r].pc = "ep_ret"
  /\ req' = [req EXCEPT ![r] = Respond(r, req[r].response, 200)]
  /\ UNCHANGED <<conversation_history, lists>>

(***************************************************************************)
(* Specification.                                                          *)
(***************************************************************************)
Next ==
  \E r \in Reqs :
       \/ analyze_video(r)
       \/ analyze_trending(r)
       \/ generate_content(r)
       \/ track_performance(r)
       \/ HistoryCheck(r)
       \/ HistoryCreate(r)
       \/ AppendResults(r)
       \/ AppendUser(r)
       \/ ReadBegin(r)
       \/ ReadContext(r)
       \/ \E response_text \in ReplyTexts : ModelReply(r, response_text)
       \/ ModelFailure(r)
       \/ FirstToolCall(r)
       \/ SecondToolCall(r)
       \/ ReturnSimple(r)
       \/ ReturnPartial(r)
       \/ ReturnFinal(r)
       \/ EndpointReturn(r)

Spec == Init /\ [][Next]_vars

(***************************************************************************)
(* The analyze_video requests one after the other, each thread scheduled   *)
(* until its handler returns.  No handler takes a lock or waits for        *)
(* another request, so the steps of a request are always enabled; the      *)
(* model call and the tool invocation return or fail (ModelReply,          *)
(* ModelFailure, the outcome of a dispatch).                               *)
(***************************************************************************)
\* the rounds of a request that is answered before another one arrives
MaxEarlier == 1

\* no other request is in flight, and the ones answered took few rounds
Alone(r) ==
  \A q \in Reqs \ {r} : ~InFlight(q) /\ req[q].rounds <= MaxEarlier

\* an analyze_video request arrives when the one before it is answered
NextVideo(r) == Alone(r) /\ analyze_video(r)

\* the steps of the thread that handles request r
Run(r) ==
  \/ HistoryCheck(r)
  \/ HistoryCreate(r)
  \/ AppendResults(r)
  \/ AppendUser(r)
  \/ ReadBegin(r)
  \/ ReadContext(r)
  \/ \E response_text \in ReplyTexts : ModelReply(r, response_text)
  \/ ModelFailure(r)
  \/ FirstToolCall(r)
  \/ SecondToolCall(r)
  \/ ReturnSimple(r)
  \/ ReturnPartial(r)
  \/ ReturnFinal(r)

LiveNext ==
  \E r \in Reqs :
       \/ NextVideo(r)
       \/ HistoryCheck(r)
       \/ HistoryCreate(r)
       \/ AppendResults(r)
       \/ AppendUser(r)
       \/ ReadBegin(r)
       \/ ReadContext(r)
       \/ \E response_text \in ReplyTexts : ModelReply(r, response_text)
       \/ ModelFailure(r)
       \/ FirstToolCall(r)
       \/ SecondToolCall(r)
       \/ ReturnSimple(r)
       \/ ReturnPartial(r)
       \/ ReturnFinal(r)

LiveSpec ==
  Init /\ [][LiveNext]_vars /\ \A r \in Reqs : WF_vars(Run(r))

(***************************************************************************)
(* analyze_video requests that run at the same time through all their      *)
(* rounds, with a model that answers every call with a directive.          *)
(***************************************************************************)
\* the call_gemini calls the requests of this specification enter in all
MaxShared == 4

\* the replies whose directive the dispatcher can execute: the tool is
\* registered and the parameters are those of its execute method
DirectiveReplies ==
  {t \in ReplyTexts :
     /\ ParsedReply[t].some
     /\ ParsedReply[t].name \in DOMAIN available_tools
     /\ BindsParams(available_tools[ParsedReply[t].name],
                    ParsedReply[t].parameters)}

\* lines 1193-1224: the reply of round 1 or 2 has a tool call; the tool is
\* executed, it returns, and call_gemini is called with its results
ToolRound(r) ==
  /\ req[r].pc = "av_ret"
  /\ req[r].call \in {1, 2}
  /\ req[r].tool_call.some
  /\ SumCalls(Reqs) < MaxShared
  /\ req' = [req EXCEPT ![r] =
               Dispatch(r, "returns",
                        IF req[r].call = 1 THEN second_prompt
                        ELSE final_prompt)]
  /\ UNCHANGED <<conversation_history, lists>>

SharedNext ==
  \E r \in Reqs :
       \/ analyze_video(r)
       \/ HistoryCheck(r)
       \/ HistoryCreate(r)
       \/ AppendResults(r)
       \/ AppendUser(r)
       \/ ReadBegin(r)
       \/ ReadContext(r)
       \/ \E response_text \in DirectiveReplies : ModelReply(r, response_text)
       \/ ToolRound(r)
       \/ ReturnFinal(r)

SharedSpec == Init /\ [][SharedNext]_vars

(***************************************************************************)
(* The directive parser on replies built from parameter blocks: one        *)
(* analyze_video request whose first reply is any of DirectiveTexts.       *)
(***************************************************************************)
\* the most extra quote characters on each side of a wrapped URL
MaxQuotes == 3

\* the most key/value pairs of a generated parameter block
MaxPairs == 2

\* a reply "TOOL: <tool_name>\nPARAMS: <block>"
Directive(tool_name, block) ==
  ToolPrefix \o tool_name \o SubSeq(ParamsPrefix, 1, Len(ParamsPrefix) - 1)
    \o block

\* n copies of the text s
RECURSIVE Repeat(_, _)
Repeat(s, n) == IF n = 0 THEN <<>> ELSE s \o Repeat(s, n - 1)

\* a key/value pair: the key between kq, the separator, the value between vq
Pair(kq, key, sep, vq, value) == kq \o key \o kq \o sep \o vq \o value \o vq

\* the block of n equal-styled pairs with keys k1, k2, ...
RECURSIVE Pairs(_, _, _, _, _)
Pairs(kq, sep, vq, value, n) ==
  IF n = 0 THEN <<>>
  ELSE (IF n = 1 THEN <<>> ELSE Pairs(kq, sep, vq, value, n - 1) \o <<",", " ">>)
       \o Pair(kq, <<"k", ToString(n)>>, sep, vq, value)

Block(body) == <<"{">> \o body \o <<"}">>

UrlHttps == Http \o <<"s">> \o SchemeSep \o <<"y">>

UrlHttp == Http \o SchemeSep \o <<"y">>

Urls == {UrlHttps, UrlHttp}

\* string values: a word, a value with a colon, with an apostrophe, with a
\* space, and URLs
StringValues ==
  {<<"a">>, <<"a", ":", "b">>, <<"a", "'", "b">>, <<"a", " ", "b">>} \cup Urls

ParamKeys == {<<"k">>, video_url}

\* parameter blocks in standard double-quoted JSON
StandardBlocks ==
  {Block(Pair(<<Q>>, key, <<":", " ">>, <<Q>>, value)) :
     key \in ParamKeys, value \in StringValues}
  \cup {Block(Pairs(<<Q>>, <<":", " ">>, <<Q>>, <<"a">>, n)) : n \in 0..MaxPairs}
  \cup {Block(<<Q, "k", Q, ":", " ">> \o value) :
          value \in {<<"1">>, <<"t","r","u","e">>, <<"[", "1", "]">>,
                     <<"{", Q, "a", Q, ":", " ", "1", "}">>}}

\* a block whose video_url value is a URL in n extra quote characters
WrappedUrl(url, n) ==
  Block(Pair(<<Q>>, video_url, <<":", " ">>, Repeat(<<Q>>, n + 1), url))

WrappedBlocks == {WrappedUrl(url, n) : url \in Urls, n \in 1..MaxQuotes}

\* the delimiters of keys (none: an unquoted key token) and of string values
KeyQuotes == {<<Q>>, <<"'">>, <<>>}

ValueQuotes == {<<Q>>, <<"'">>}

\* what JSON allows between a key and its value
Separators == {<<":">>, <<":", " ">>, <<" ", ":", " ">>}

\* blocks that differ from standard JSON by single quotes or unquoted keys
RelaxedBlock(kq, sep, vq, n) == Block(Pairs(kq, sep, vq, <<"a">>, n))

RelaxedBlocks ==
  {RelaxedBlock(kq, sep, vq, n) :
     kq \in KeyQuotes, sep \in Separators, vq \in ValueQuotes, n \in 1..MaxPairs}

ExamplePath ==
  <<"e","x","a","m","p","l","e",".","c","o","m","/","w","a","t","c","h","?",
    "v","=","a","b","c">>

\* the reply of the double-wrapped scheme scenario:
\* TOOL: performance_tracker\nPARAMS: {"video_url": ""https"://example.com/watch?v=abc"}
ReplyDoubleWrapped ==
  Directive(performance_tracker,
            <<"{", Q>> \o video_url \o <<Q, ":", " ", Q, Q>> \o Http
              \o <<"s", Q>> \o SchemeSep \o ExamplePath \o <<Q, "}">>)

\* replies without the marker "TOOL:"
UnmarkedTexts ==
  {ReplyPlain,
   <<"t","o","o","l",":"," ">> \o youtube_scraper
     \o SubSeq(ParamsPrefix, 1, Len(ParamsPrefix) - 1)
     \o Block(Pair(<<Q>>, <<"n","i","c","h","e">>, <<":", " ">>, <<Q>>, <<"a">>)),
   <<"T","O","O","L"," ">> \o youtube_scraper
     \o SubSeq(ParamsPrefix, 1, Len(ParamsPrefix) - 1) \o <<"{", "}">>,
   SubSeq(ParamsPrefix, 2, Len(ParamsPrefix)) \o <<"}">>}

\* replies with the marker that tool_pattern does not match
UnmatchedTexts ==
  {ToolMarker,
   ToolPrefix \o youtube_scraper,
   ToolPrefix \o youtube_scraper
     \o SubSeq(ParamsPrefix, 1, Len(ParamsPrefix) - 1) \o <<"[", "]">>,
   Directive(youtube_scraper, <<"{">>)}

DirectiveTexts ==
  {Directive(youtube_scraper, block) : block \in StandardBlocks \cup RelaxedBlocks}
  \cup {Directive(performance_tracker, block) : block \in WrappedBlocks}
  \cup {ReplyDoubleWrapped}
  \cup UnmarkedTexts \cup UnmatchedTexts \cup ReplyTexts

\* only request 1 arrives
OneVideo(r) == r = 1 /\ analyze_video(r)

\* a call_gemini whose inner try block does not catch the decoding error of
\* an unparsable directive: the error reaches the clause of lines 842-847
ParseDirective_Raises(r) ==
  /\ req[r].pc = "cg_model"
  /\ \E response_text \in DirectiveTexts :
       LET raised == /\ Contains(response_text, ToolMarker)
                     /\ tool_match(response_text).found
                     /\ ~ParseReply(response_text).some
           response == IF raised THEN ErrorText ELSE response_text
       IN  /\ lists' = IF raised THEN lists
                       ELSE [lists EXCEPT
                               ![conversation_history[req[r].conversation_id]] =
                                 Append(@, Turn("assistant", response_text, r,
                                                req[r].rounds + 1))]
           /\ req' = [req EXCEPT ![r].pc = ReturnPc(r),
                                 ![r].response = response,
                                 ![r].tool_call = ParseReply(response_text),
                                 ![r].rounds = @ + 1,
                                 ![r].replies = Append(@, response),
                                 ![r].it = 0,
                                 ![r].full_context = <<>>,
                                 ![r].snapshot = <<>>]
  /\ UNCHANGED conversation_history

\* lines 757-840 for a reply of DirectiveTexts, parsed as the code parses it
ParseDirective(r) ==
  /\ req[r].pc = "cg_model"
  /\ \E response_text \in DirectiveTexts :
       /\ AppendTurn(r, Turn("assistant", response_text, r, req[r].rounds + 1))
       /\ req' = [req EXCEPT ![r].pc = ReturnPc(r),
                             ![r].response = response_text,
                             ![r].tool_call = ParseReply(response_text),
                             ![r].rounds = @ + 1,
                             ![r].replies = Append(@, response_text),
                             ![r].it = 0,
                             ![r].full_context = <<>>, ![r].snapshot = <<>>]
  /\ UNCHANGED conversation_history

ParserNext ==
  \E r \in Reqs :
       \/ OneVideo(r)
       \/ HistoryCheck(r)
       \/ HistoryCreate(r)
       \/ AppendUser(r)
       \/ ReadBegin(r)
       \/ ReadContext(r)
       \/ ParseDirective(r)
       \/ ReturnSimple(r)

ParserSpec == Init /\ [][ParserNext]_vars

(***************************************************************************)
(* Properties of the orchestration loop of analyze_video.                  *)
(***************************************************************************)
Videos == {r \in Reqs : req[r].kind = "analyze_video"}

\* the reply of round k of request r holds a directive the parser recovers
HasDirective(r, k) ==
  /\ k \in 1..Len(req[r].replies)
  /\ req[r].replies[k] \in ReplyTexts
  /\ ParsedReply[req[r].replies[k]].some

\* the rounds in which request r dispatched a tool
DispatchRounds(r) ==
  {req[r].dispatched[i].round : i \in 1..Len(req[r].dispatched)}

\* C1: no analyze_video request makes more than three model calls, whatever
\* the model replies, also when every reply requests a tool.
C1_RoundsAtMostThree ==
  \A r \in Videos : req[r].rounds <= 3 /\ Len(req[r].replies) = req[r].rounds

\* a request that was answered after three replies that all request a tool
C1_Witness ==
  \E r \in Videos :
    /\ req[r].pc = "done"
    /\ req[r].rounds = 3
    /\ \A k \in 1..3 : HasDirective(r, k)

\* C2: at most one tool is dispatched per round and at most two per request,
\* and each dispatch is for the directive parsed from the reply of its round,
\* with the tool name and the parameters of that reply.
C2_OneDispatchPerRound ==
  \A r \in Videos :
    LET d == req[r].dispatched
    IN  /\ Len(d) <= 2
        /\ \A i, j \in 1..Len(d) : i < j => d[i].round < d[j].round
        /\ \A i \in 1..Len(d) :
             /\ HasDirective(r, d[i].round)
             /\ d[i].name = ParsedReply[req[r].replies[d[i].round]].name
             /\ d[i].parameters =
                  ParsedReply[req[r].replies[d[i].round]].parameters

\* a request that dispatched the tools of two different directives
C2_Witness ==
  \E r \in Videos :
    /\ Len(req[r].dispatched) = 2
    /\ req[r].dispatched[1].name # req[r].dispatched[2].name

\* C3: when the third reply still holds a directive, no tool is dispatched
\* for it, the handler can return, and it returns that reply's text with
\* status 200.
C3_CeilingReturnsText ==
  \A r \in Videos :
    HasDirective(r, 3) =>
      /\ 3 \notin DispatchRounds(r)
      /\ req[r].pc \in {"av_ret", "done"}
      /\ req[r].pc = "av_ret" => ENABLED ReturnFinal(r)
      /\ req[r].pc = "done" =>
           req[r].status = 200 /\ req[r].result = req[r].replies[3]

\* a request answered with a third reply that holds a directive
C3_Witness ==
  \E r \in Videos :
    /\ req[r].pc = "done"
    /\ HasDirective(r, 3)
    /\ req[r].result = ReplyUnknownTool

\* C4: when a dispatched tool raises, also for a missing or wrong parameter
\* name, execute_tool_call returns an error result, the request is not
\* aborted, and it is answered with status 200 and the text of a model call
\* made after the failure.
C4_ToolFailureAbsorbed ==
  \A r \in Videos :
    \A i \in 1..Len(req[r].dispatched) :
      LET d == req[r].dispatched[i]
      IN  d.raised =>
            /\ d.results = ToolExecutionError
            /\ req[r].status # 500
            /\ req[r].pc = "done" =>
                 /\ req[r].status = 200
                 /\ req[r].rounds > d.round
                 /\ req[r].result = req[r].replies[req[r].rounds]

\* a request answered with a reply text after the tool was called without
\* its required parameter
C4_Witness ==
  \E r \in Videos :
    /\ req[r].pc = "done"
    /\ req[r].result \in ReplyTexts
    /\ \E i \in 1..Len(req[r].dispatched) :
         /\ req[r].dispatched[i].raised
         /\ req[r].dispatched[i].parameters = EmptyDict

\* the tool results request r passes are those of a tool that is not there
PassesNotFound(r) ==
  /\ req[r].kind = "analyze_video"
  /\ req[r].tool_results.key = ErrorKey
  /\ req[r].tool_results.msg = "Tool not found"

\* the places of call_gemini before the tool results are in the history
BeforeResults == {"cg_check", "cg_create", "cg_results"}

\* C5, the dispatcher: a directive naming an unregistered tool gives the
\* unknown-tool error result, and the request is not aborted but goes on to
\* a further model call.
C5_UnknownToolResult ==
  \A r \in Videos :
    \A i \in 1..Len(req[r].dispatched) :
      LET d == req[r].dispatched[i]
      IN  d.name \notin DOMAIN available_tools =>
            /\ d.results = ToolNotFound(d.name)
            /\ req[r].status # 500
            /\ req[r].pc = "done" => req[r].rounds > d.round

\* C5, the store: call_gemini gets past the tool results only by appending
\* the unknown-tool error to the session's list as a function turn.
C5_UnknownToolAppended ==
  \A r \in Reqs :
    (PassesNotFound(r) /\ req[r].pc \in BeforeResults
       /\ req'[r].pc \notin BeforeResults) =>
      /\ req[r].pc = "cg_results"
      /\ req'[r].pc = "cg_user"
      /\ Transcript(req[r].conversation_id)' =
           Append(Transcript(req[r].conversation_id),
                  Turn("function", Dumps(req[r].tool_results), r,
                       req[r].call - 1))

\* C5: an unknown tool name yields an unknown-tool error result without an
\* exception, the result is appended to the transcript as a tool-result
\* turn, and the loop makes a further model call.
C5_UnknownTool == []C5_UnknownToolResult /\ [][C5_UnknownToolAppended]_vars

\* a request answered after the unknown-tool error went to its transcript
C5_Witness ==
  \E r \in Videos :
    /\ req[r].pc = "done"
    /\ req[r].status = 200
    /\ \E i \in 1..Len(req[r].dispatched) :
         /\ req[r].dispatched[i].name \notin DOMAIN available_tools
         /\ \E k \in 1..Len(Transcript(req[r].conversation_id)) :
              Transcript(req[r].conversation_id)[k] =
                Turn("function", Dumps(req[r].dispatched[i].results), r,
                     req[r].dispatched[i].round)

\* C6: a model-call failure in any round ends the request: no tool is
\* dispatched and no model call is made after it, and the caller gets the
\* error string with status 200.
C6_ModelFailureIsFinal ==
  \A r \in Videos :
    \A k \in 1..Len(req[r].replies) :
      req[r].replies[k] = ErrorText =>
        /\ req[r].rounds = k
        /\ \A n \in DispatchRounds(r) : n < k
        /\ req[r].pc \in {"av_ret", "done"}
        /\ req[r].tool_call = None
        /\ req[r].pc = "done" =>
             req[r].status = 200 /\ req[r].result = ErrorText

\* a request answered with the error string of a failure in its second round
C6_Witness ==
  \E r \in Videos :
    /\ req[r].pc = "done"
    /\ req[r].rounds = 2
    /\ req[r].replies[2] = ErrorText
    /\ req[r].result = ErrorText

(***************************************************************************)
(* Properties of the conversation store.                                   *)
(***************************************************************************)
\* s is t or a beginning of t
IsPrefix(s, t) == Len(s) <= Len(t) /\ SubSeq(t, 1, Len(s)) = s

\* C7: every step leaves each session's transcript as it was or extends it
\* at its end, so no turn is ever removed, edited or reordered and the
\* length of a transcript is the number of appends made to it.
C7_AppendOnly ==
  [][\A sid \in DOMAIN conversation_history :
       IsPrefix(Transcript(sid), Transcript(sid)')]_vars

\* C8: every function turn of a transcript comes after an assistant turn of
\* the same transcript whose directive produced the result it carries.
C8_ToolResultHasDirective ==
  \A sid \in DOMAIN conversation_history :
    LET T == Transcript(sid)
    IN  \A i \in 1..Len(T) :
          T[i].role = "function" =>
            \E j \in 1..(i - 1) :
              /\ T[j].role = "assistant"
              /\ T[j].by = T[i].by
              /\ T[j].n = T[i].n
              /\ ParsedReply[T[j].text].some

\* the prompt and the tool results of call k of request r
PromptOf(r, k) ==
  IF req[r].kind = "analyze_video"
  THEN <<first_prompt, second_prompt, final_prompt>>[k]
  ELSE user_prompt

ResultsOf(r, k) ==
  IF req[r].kind # "analyze_video" THEN SystemPrompt
  ELSE IF k = 1 THEN NoResults
  ELSE req[r].dispatched[k - 1].results

\* the turns call k of request r appends when no other request interferes
CallTurns(r, k) ==
  (IF ResultsOf(r, k) # NoResults
   THEN <<Turn("function", Dumps(ResultsOf(r, k)), r,
               IF req[r].kind = "analyze_video" THEN k - 1 ELSE 0)>>
   ELSE <<>>)
  \o <<Turn("user", PromptOf(r, k), r, k)>>
  \o (IF req[r].replies[k] # ErrorText
      THEN <<Turn("assistant", req[r].replies[k], r, k)>>
      ELSE <<>>)

\* the transcript of request r run alone on a fresh session, up to call k
RECURSIVE OwnTurns(_, _)
OwnTurns(r, k) == IF k = 0 THEN <<>> ELSE OwnTurns(r, k - 1) \o CallTurns(r, k)

\* C9: a prompt holds only turns appended under the session id it is built
\* for, and the transcript of a session that one request used is the
\* transcript of that request run alone, whatever went on in other sessions.
C9_SessionsIsolated ==
  \A r \in Reqs :
    /\ req[r].pc = "cg_model" =>
         \A i \in 1..Len(req[r].full_context) :
           req[req[r].full_context[i].by].conversation_id
             = req[r].conversation_id
    /\ ( /\ req[r].pc = "done"
         /\ req[r].rounds > 0
         /\ \A q \in Reqs \ {r} :
              req[q].conversation_id # req[r].conversation_id )
       => Transcript(req[r].conversation_id) = OwnTurns(r, req[r].rounds)

\* two requests on different sessions that both have their prompt built and
\* wait for the model
C9_Witness ==
  \E r, q \in Reqs :
    /\ req[r].pc = "cg_model" /\ req[q].pc = "cg_model"
    /\ req[r].conversation_id # req[q].conversation_id
    /\ req[r].full_context # <<>> /\ req[q].full_context # <<>>

\* C10: the prompt of a round is built from the transcript as it was when
\* the read began; a turn appended after that is not in it.
C10_DefensiveSnapshot ==
  \A r \in Reqs :
    req[r].pc = "cg_model" => req[r].full_context = req[r].snapshot

(***************************************************************************)
(* Properties of the flow of a request.                                    *)
(***************************************************************************)
\* C17: an analyze_video request that made a model call is answered with
\* status 200 and the response of the last call_gemini it made, in round 1,
\* 2 or 3, and the session id it answers with is the one it made its calls
\* under, video_<second of arrival>.
C17_ResultIsLastReply ==
  \A r \in Videos :
    (req[r].pc = "done" /\ req[r].rounds > 0) =>
      /\ req[r].status = 200
      /\ req[r].call = req[r].rounds
      /\ req[r].result = req[r].replies[req[r].rounds]
      /\ req[r].conversation_id = VideoSession(req[r].time)
      /\ req[r].conversation_id \in DOMAIN conversation_history

\* a request answered with its second reply, which is not its first
C17_Witness ==
  \E r \in Videos :
    /\ req[r].pc = "done"
    /\ req[r].rounds = 2
    /\ req[r].replies[2] \in ReplyTexts \ {req[r].replies[1]}
    /\ req[r].result = req[r].replies[2]

\* C19, at most one: no two assistant turns of any list are of the same
\* round of the same request.
C19_OneAssistantTurn ==
  \A l, k \in DOMAIN lists :
    \A i \in 1..Len(lists[l]), j \in 1..Len(lists[k]) :
      ( /\ lists[l][i].role = "assistant"
        /\ lists[k][j].role = "assistant"
        /\ lists[l][i].by = lists[k][j].by
        /\ lists[l][i].n = lists[k][j].n )
      => (l = k /\ i = j)

\* C19, the reply: the step in which call_gemini gets a reply appends one
\* assistant turn with the reply text to the list of the session and leaves
\* the other lists alone.
C19_ReplyAppended ==
  \A r \in Reqs :
    ( /\ req[r].pc = "cg_model"
      /\ req'[r].pc # "cg_model"
      /\ req'[r].response # ErrorText ) =>
      /\ req'[r].response \in ReplyTexts
      /\ Transcript(req[r].conversation_id)' =
           Append(Transcript(req[r].conversation_id),
                  Turn("assistant", req'[r].response, r, req[r].rounds + 1))
      /\ \A l \in DOMAIN lists :
           l # conversation_history[req[r].conversation_id] =>
             lists'[l] = lists[l]

\* C19, the tool result: a call_gemini that follows a dispatch carries the
\* result of that dispatch and gets past lines 727-732 only by appending it
\* as a function turn.
C19_ResultAppended ==
  \A r \in Videos :
    ( /\ req[r].call > 1
      /\ req[r].pc \in BeforeResults
      /\ req'[r].pc \notin BeforeResults ) =>
      /\ req[r].tool_results = req[r].dispatched[req[r].call - 1].results
      /\ req[r].pc = "cg_results"
      /\ req'[r].pc = "cg_user"
      /\ Transcript(req[r].conversation_id)' =
           Append(Transcript(req[r].conversation_id),
                  Turn("function",
                       Dumps(req[r].dispatched[req[r].call - 1].results), r,
                       req[r].call - 1))

Phase(r) ==
  IF req[r].pc = "idle" THEN "IDLE"
  ELSE IF req[r].pc = "done"
    THEN (IF req[r].status = 200 THEN "FINAL" ELSE "FAILED")
  ELSE IF req[r].pc = "av_ret"
    THEN (IF req[r].tool_call.some THEN "HAS_DIRECTIVE" ELSE "FINAL")
  ELSE "AWAITING_MODEL"

\* C18, the transitions: from AWAITING_MODEL a request goes to HAS_DIRECTIVE
\* or FINAL, from HAS_DIRECTIVE to AWAITING_MODEL, or to FINAL when its
\* three rounds are used up, and it stays in FINAL.
C18_Transitions ==
  \A r \in Videos :
    Phase(r)' # Phase(r) =>
      \/ Phase(r) = "AWAITING_MODEL" /\ Phase(r)' \in {"HAS_DIRECTIVE", "FINAL"}
      \/ /\ Phase(r) = "HAS_DIRECTIVE"
         /\ \/ Phase(r)' = "AWAITING_MODEL" /\ req[r].rounds < 3
            \/ Phase(r)' = "FINAL" /\ req[r].rounds = 3

\* C18: the loop follows only the transitions AWAITING_MODEL to
\* HAS_DIRECTIVE or FINAL and HAS_DIRECTIVE to AWAITING_MODEL or FINAL, and
\* every analyze_video request that entered the loop is answered in FINAL.
C18_FlowReachesFinal ==
  /\ [][C18_Transitions]_vars
  /\ \A r \in Reqs :
       (req[r].kind = "analyze_video" /\ InFlight(r))
         ~> (req[r].pc = "done" /\ req[r].status = 200)

\* a request answered after two dispatches and three replies
C18_Witness ==
  \E r \in Videos :
    /\ Phase(r) = "FINAL"
    /\ req[r].pc = "done"
    /\ req[r].rounds = 3
    /\ Len(req[r].dispatched) = 2
    /\ ~req[r].tool_call.some

(***************************************************************************)
(* Properties of requests that run at the same time.                       *)
(***************************************************************************)
\* turn t is in the sequence T
InTranscript(t, T) == \E j \in 1..Len(T) : T[j] = t

\* C21: creating a session discards no turn: every turn a request appended
\* to a list made for a session is in the transcript of that session, also
\* when two requests make their first call on an unseen session id together.
C21_CreationKeepsTurns ==
  \A l \in Reqs :
    \A i \in 1..Len(lists[l]) :
      InTranscript(lists[l][i], Transcript(req[l].conversation_id))

\* C22: two analyze_video requests never have the same conversation id, and
\* the prompt of an analyze_video request holds only turns of that request.
C22_VideoSessionsDistinct ==
  \A r \in Videos :
    /\ \A q \in Videos \ {r} :
         req[r].conversation_id # "" =>
           req[q].conversation_id # req[r].conversation_id
    /\ req[r].pc = "cg_model" =>
         \A i \in 1..Len(req[r].full_context) : req[r].full_context[i].by = r

\* the user turn that the call_gemini call of function turn t appends
UserTurnAfter(t, u) ==
  /\ u.role = "user"
  /\ u.by = t.by
  /\ u.n = t.n + 1

\* C23: in every transcript a function turn is directly followed by the user
\* turn of the same call_gemini call; it is the last turn only while that
\* call is about to append its user turn.
C23_ResultThenUser ==
  \A sid \in DOMAIN conversation_history :
    LET T == Transcript(sid)
    IN  \A i \in 1..Len(T) :
          T[i].role = "function" =>
            IF i < Len(T) THEN UserTurnAfter(T[i], T[i + 1])
            ELSE /\ req[T[i].by].pc = "cg_user"
                 /\ req[T[i].by].conversation_id = sid

\* turn t was appended by call k of request r
OfCall(t, r, k) ==
  /\ t.by = r
  /\ IF t.role = "function"
     THEN t.n = (IF req[r].kind = "analyze_video" THEN k - 1 ELSE 0)
     ELSE t.n = k

\* the turns of call k of request r in the transcript of its session
TurnsOfCall(r, k) ==
  LET T == Transcript(req[r].conversation_id)
      RECURSIVE From(_)
      From(i) == IF i > Len(T) THEN <<>>
                 ELSE (IF OfCall(T[i], r, k) THEN <<T[i]>> ELSE <<>>)
                      \o From(i + 1)
  IN  From(1)

\* C24, the state: after a call_gemini call whose model call failed, what the
\* session's transcript holds of that call is the function turn, when tool
\* results were passed, then the user turn, and no assistant turn.
C24_FailedCallTurns ==
  \A r \in Reqs :
    \A k \in 1..Len(req[r].replies) :
      req[r].replies[k] = ErrorText => TurnsOfCall(r, k) = CallTurns(r, k)

\* C24, the step: the failure of the model call changes no transcript.
C24_FailureAppendsNothing ==
  \A r \in Reqs :
    (req[r].pc = "cg_model" /\ req'[r].response = ErrorText
       /\ req'[r].pc # "cg_model") =>
      /\ lists' = lists
      /\ conversation_history' = conversation_history

\* C24: a call_gemini call whose model call fails leaves the transcript
\* extended by the turns it appended before the model call and by no
\* assistant turn, and rolls nothing back.
C24_FailureKeepsTurns ==
  []C24_FailedCallTurns /\ [][C24_FailureAppendsNothing]_vars

\* the roles of the turns of a sequence
Roles(T) == [i \in 1..Len(T) |-> T[i].role]

\* request r made three calls on a session it created, every reply holds a
\* directive and no tool raised
ThreeDirectives(r) ==
  /\ req[r].rounds = 3
  /\ conversation_history[req[r].conversation_id] = r
  /\ \A k \in 1..3 : HasDirective(r, k)
  /\ \A i \in 1..Len(req[r].dispatched) : ~req[r].dispatched[i].raised

\* C25: when an analyze_video request on a fresh session in which no call
\* fails and all three replies hold a directive returns, the transcript of
\* its session is the eight turns user, assistant, function, user,
\* assistant, function, user, assistant of that request.
C25_EightTurns ==
  [][\A r \in Reqs :
       ( /\ req[r].kind = "analyze_video"
         /\ req[r].pc = "av_ret"
         /\ req'[r].pc = "done"
         /\ ThreeDirectives(r) )
       => /\ Transcript(req[r].conversation_id)' = OwnTurns(r, 3)
          /\ Roles(Transcript(req[r].conversation_id)') =
               <<"user", "assistant", "function", "user", "assistant",
                 "function", "user", "assistant">>]_vars

(***************************************************************************)
(* Properties of the three tool endpoints.                                 *)
(***************************************************************************)
Endpoints == {r \in Reqs : req[r].kind = "tool_endpoint"}

\* C26: a request of analyze_trending, generate_content or track_performance
\* makes one model call when it succeeds and never more, and no tool is
\* dispatched for a directive of the reply: the reply is returned as it is.
C26_EndpointsNeverDispatch ==
  \A r \in Endpoints :
    /\ req[r].rounds <= 1
    /\ req[r].dispatched = <<>>
    /\ req[r].pc = "ep_ret" => req[r].rounds = 1 /\ ENABLED EndpointReturn(r)
    /\ (req[r].pc = "done" /\ req[r].status = 200) =>
         /\ req[r].rounds = 1
         /\ req[r].result = req[r].replies[1]

\* a tool endpoint answered with a reply that holds a directive
C26_Witness ==
  \E r \in Endpoints :
    /\ req[r].pc = "done"
    /\ req[r].status = 200
    /\ req[r].tool_call.some
    /\ req[r].result = ReplyScraper

\* request r was answered by the validation of its handler
Rejected(r) ==
  /\ req[r].kind = "tool_endpoint"
  /\ req[r].pc = "done"
  /\ req[r].result \in {MissingParameter, InvalidUrl}

\* C27, the state: a rejected request has status 400, made no model call,
\* and no tool was run for it, by the handler or for a directive.
C27_RejectedDidNothing ==
  \A r \in Reqs :
    Rejected(r) =>
      /\ req[r].status = 400
      /\ req[r].rounds = 0
      /\ req[r].replies = <<>>
      /\ ~req[r].direct
      /\ req[r].dispatched = <<>>

\* C27, the step: the step that rejects a request changes no transcript.
C27_RejectionKeepsStore ==
  \A r \in Reqs :
    (~Rejected(r) /\ Rejected(r)') =>
      /\ conversation_history' = conversation_history
      /\ lists' = lists

\* C27: a request rejected at the validation of its body returns an error
\* response, makes no model call and no tool call, and leaves every session
\* transcript as it was.
C27_RejectedLeavesNoTrace ==
  []C27_RejectedDidNothing /\ [][C27_RejectionKeepsStore]_vars

\* a request rejected for its URL while a session has a transcript
C27_Witness ==
  \E r \in Reqs :
    /\ Rejected(r)
    /\ req[r].result = InvalidUrl
    /\ \E sid \in DOMAIN conversation_history : Transcript(sid) # <<>>

(***************************************************************************)
(* Properties of the directive parser.                                     *)
(***************************************************************************)
\* request r has received the reply of its first round
Parsed(r) == req[r].pc \in {"av_ret", "done"} /\ req[r].rounds = 1

\* the "tool_call" entry for a parsed directive
ToolCall(name, parameters) ==
  [some |-> TRUE, name |-> name, parameters |-> parameters]

\* the parameter dictionary {"video_url": url}
UrlParams(url) == DictPut(EmptyDict, video_url, JStr(url))

\* C11: for a reply whose parameter block is standard double-quoted JSON,
\* also with a colon, an apostrophe or a URL in a string value, call_gemini
\* returns the parameters that decoding the block as JSON gives.
C11_StandardJsonDecoded ==
  \A r \in Reqs : \A block \in StandardBlocks :
    (Parsed(r) /\ req[r].replies[1] = Directive(youtube_scraper, block)) =>
      req[r].tool_call = ToolCall(youtube_scraper, JsonLoads(block).val.v)

\* C12: for a block whose video_url value is an http(s) URL wrapped in 1 to
\* MaxQuotes extra quote characters, the parser returns a tool call whose
\* video_url parameter is the unwrapped URL.
C12_WrappedUrlUnwrapped ==
  \A r \in Reqs : \A url \in Urls : \A n \in 1..MaxQuotes :
    ( /\ Parsed(r)
      /\ req[r].replies[1] = Directive(performance_tracker, WrappedUrl(url, n)) )
    => req[r].tool_call = ToolCall(performance_tracker, UrlParams(url))

\* C13: the reply of the double-wrapped scheme scenario gives a tool call for
\* performance_tracker with parameters {video_url: the URL of the scenario}.
C13_DoubleWrappedScheme ==
  \A r \in Reqs :
    (Parsed(r) /\ req[r].replies[1] = ReplyDoubleWrapped) =>
      req[r].tool_call =
        ToolCall(performance_tracker,
                 UrlParams(Http \o <<"s">> \o SchemeSep \o ExamplePath))

\* C14: when decoding the repaired parameter text fails and the parameter
\* text of the reply names video_url and holds an http(s) URL, the fallback
\* gives the tool call with parameters {video_url: that URL}.
C14_FallbackRecoversUrl ==
  \A r \in Reqs :
    Parsed(r) =>
      LET m == tool_match(req[r].replies[1])
      IN  ( /\ Contains(req[r].replies[1], ToolMarker)
            /\ m.found
            /\ ~JsonLoads(CleanedParams(m.group2)).ok
            /\ Contains(m.group2, video_url)
            /\ url_match(m.group2) # <<>> )
          => req[r].tool_call =
               ToolCall(m.group1, UrlParams(url_match(m.group2)))

C16_NoMarkerNoToolCall ==
  \A r \in Reqs :
    (Parsed(r) /\ ~Contains(req[r].replies[1], ToolMarker)) =>
      /\ req[r].tool_call = None
      /\ req[r].response = req[r].replies[1]
      /\ req[r].dispatched = <<>>
      /\ req[r].pc = "av_ret" =>
           ENABLED ReturnSimple(r) /\ ~ENABLED FirstToolCall(r)
      /\ req[r].pc = "done" =>
           req[r].status = 200 /\ req[r].result = req[r].replies[1]

\* a request answered with a reply that has the tool pattern in lower case
C16_Witness ==
  \E r \in Reqs :
    /\ req[r].pc = "done"
    /\ req[r].rounds = 1
    /\ req[r].replies[1] \in UnmarkedTexts \ {ReplyPlain}
    /\ Contains(req[r].replies[1], SubSeq(ParamsPrefix, 2, Len(ParamsPrefix)))
    /\ req[r].result = req[r].replies[1]

\* C20: for a block that differs from standard JSON only by single-quote
\* delimiters or unquoted key tokens, with keys and string values of word
\* characters, the parser returns the object that decoding the same block
\* with double-quote delimiters gives.
C20_RelaxedBlocksRepaired ==
  \A r \in Reqs :
    \A kq \in KeyQuotes, sep \in Separators, vq \in ValueQuotes,
       n \in 1..MaxPairs :
      ( /\ Parsed(r)
        /\ req[r].replies[1] =
             Directive(youtube_scraper, RelaxedBlock(kq, sep, vq, n)) )
      => req[r].tool_call =
           ToolCall(youtube_scraper,
                    JsonLoads(RelaxedBlock(<<Q>>, sep, <<Q>>, n)).val.v)

====
